---------------------------- MODULE Spec2Model ----------------------------
(***************************************************************************)
(* A model of html-lint: the Report sink, the predicate helpers, the eight *)
(* Lint* rules, the recursive tree walk Lint, the token scan LintNesting,   *)
(* and the command's main loop over its file arguments and standard input.  *)
(*                                                                         *)
(* Four specifications share the actions:                                   *)
(*   SpecNesting  LintNesting called on every bounded token stream          *)
(*   SpecLint     Lint called (as runTest does) on every bounded tree       *)
(*   SpecAttrs    Lint called on single elements with every bounded         *)
(*                attribute list, and on <time> elements with sample text   *)
(*   SpecMain     main over bounded argument lists of sample documents      *)
(***************************************************************************)
EXTENDS Integers, Sequences, FiniteSets, TLC

VARIABLES
    report,     \* Report: [ErrorCount, Writer]; Writer is the lines written
    tree,       \* the *html.Node arena being walked: node id -> node
    lintpc,     \* Lint: "idle" | "call" (entering cur) | "return" | "done"
    cur,        \* Lint: the node of the innermost Lint activation
    frames,     \* Lint: the enclosing activations (nodes whose child loop runs)
    log,        \* history: one entry per rule call of the current walk
    reader,     \* LintNesting: tokens the tokenizer has not yet returned
    read,       \* history: tokens z.Next() has returned in this scan
    stack,      \* LintNesting: the open-tag stack
    nestpc,     \* LintNesting: "idle" | "scan" | "done" | "panic"
    args,       \* main: flag.Args(), a sequence of files
    stdin,      \* main: the document on standard input
    argi,       \* main: index of the file the range loop is at
    mainpc,     \* main: "api" (no main) | "loop" | "lint" | "nesting" |
                \*       "stdinlint" | "exited"
    passes,     \* history: the passes started, with the lines each wrote
    exitCode    \* main: the value passed to os.Exit, or -1 before that

vars == <<report, tree, lintpc, cur, frames, log, reader, read, stack, nestpc,
          args, stdin, argi, mainpc, passes, exitCode>>

lintVars == <<tree, lintpc, cur, frames, log>>
nestVars == <<reader, read, stack, nestpc>>
mainVars == <<args, stdin, argi, mainpc, exitCode>>

---------------------------------------------------------------------------
(* Bounds *)

MaxNodes  == 4   \* nodes of a tree in SpecLint, the root included
MaxAttrs  == 2   \* attributes of the element in SpecAttrs
MaxTokens == 4   \* tokens of a stream in SpecNesting
MaxFiles  == 2   \* file arguments in SpecMain

nil == 0         \* a nil *html.Node

timeFormat == "_2 January 2006"

Min(S) == CHOOSE x \in S : \A y \in S : x <= y

---------------------------------------------------------------------------
(* Strings.  TLC cannot index a string, so every string the model uses is   *)
(* listed here with its decomposition into lexical pieces: digits, spaces   *)
(* and quotes are single characters, a run of letters is one piece.         *)

Chars ==
    [s \in {"", "lazy", "module", "0", "goat", "x", "florb"} |->
        IF s = "" THEN <<>> ELSE <<s>>]
    @@ ("'wow'"              :> <<"'", "wow", "'">>)
    @@ ("Hello, \"World\""   :> <<"Hello,", " ", "\"", "World", "\"">>)
    @@ ("hi"                 :> <<"hi">>)
    @@ ("2 January 2006"     :> <<"2", " ", "January", " ", "2", "0", "0", "6">>)
    @@ (" 2 January 2006"    :> <<" ", "2", " ", "January", " ", "2", "0", "0", "6">>)
    @@ ("02 January 2006"    :> <<"0", "2", " ", "January", " ", "2", "0", "0", "6">>)
    @@ ("12 January 2006"    :> <<"1", "2", " ", "January", " ", "2", "0", "0", "6">>)
    @@ ("2  January 2006"    :> <<"2", " ", " ", "January", " ", "2", "0", "0", "6">>)
    @@ ("2 January 206"      :> <<"2", " ", "January", " ", "2", "0", "6">>)
    @@ ("2 January 2006 "    :> <<"2", " ", "January", " ", "2", "0", "0", "6", " ">>)
    @@ ("0 January 2006"     :> <<"0", " ", "January", " ", "2", "0", "0", "6">>)
    @@ ("30 February 2006"   :> <<"3", "0", " ", "February", " ", "2", "0", "0", "6">>)
    @@ ("29 February 2004"   :> <<"2", "9", " ", "February", " ", "2", "0", "0", "4">>)
    @@ ("29 February 2006"   :> <<"2", "9", " ", "February", " ", "2", "0", "0", "6">>)
    @@ ("2 Jan 2006"         :> <<"2", " ", "Jan", " ", "2", "0", "0", "6">>)
    @@ ("June 99th, 12 BCE"  :> <<"June", " ", "9", "9", "th,", " ", "1", "2", " ", "BCE">>)

DigitVal ==
    ("0" :> 0) @@ ("1" :> 1) @@ ("2" :> 2) @@ ("3" :> 3) @@ ("4" :> 4) @@
    ("5" :> 5) @@ ("6" :> 6) @@ ("7" :> 7) @@ ("8" :> 8) @@ ("9" :> 9)

isDigit(v, i) == i <= Len(v) /\ v[i] \in DOMAIN DigitVal

Drop(v, k) == SubSeq(v, k + 1, Len(v))

longMonthNames ==
    ("January" :> 1) @@ ("February" :> 2) @@ ("March" :> 3) @@ ("April" :> 4) @@
    ("May" :> 5) @@ ("June" :> 6) @@ ("July" :> 7) @@ ("August" :> 8) @@
    ("September" :> 9) @@ ("October" :> 10) @@ ("November" :> 11) @@
    ("December" :> 12)

isLeap(year) == year % 4 = 0 /\ (year % 100 # 0 \/ year % 400 = 0)

daysIn(month, year) ==
    IF month = 2 THEN (IF isLeap(year) THEN 29 ELSE 28)
    ELSE IF month \in {4, 6, 9, 11} THEN 30 ELSE 31

(* time.Parse(timeFormat, s) succeeds (returns a nil error): the layout     *)
(* "_2 January 2006" is an optionally space-padded one- or two-digit day,   *)
(* a space, a full month name, a space, a four-digit year, and nothing      *)
(* after it; the day must exist in that month.                              *)
ParseTimeOK(s) ==
    LET v0 == Chars[s]
        v1 == IF Len(v0) > 0 /\ v0[1] = " " THEN Drop(v0, 1) ELSE v0
    IN  /\ isDigit(v1, 1)
        /\ LET two  == isDigit(v1, 2)
               day  == IF two THEN 10 * DigitVal[v1[1]] + DigitVal[v1[2]]
                       ELSE DigitVal[v1[1]]
               v2   == Drop(v1, IF two THEN 2 ELSE 1)
           IN  /\ Len(v2) >= 7
               /\ v2[1] = " "
               /\ v2[2] \in DOMAIN longMonthNames
               /\ v2[3] = " "
               /\ \A i \in 4..7 : isDigit(v2, i)
               /\ Len(v2) = 7
               /\ LET year == 1000 * DigitVal[v2[4]] + 100 * DigitVal[v2[5]]
                              + 10 * DigitVal[v2[6]] + DigitVal[v2[7]]
                  IN  day >= 1 /\ day <= daysIn(longMonthNames[v2[2]], year)

(* strings.ContainsAny(s, "'\"") *)
ContainsAnyQuote(s) == \E i \in 1..Len(Chars[s]) : Chars[s][i] \in {"'", "\""}

---------------------------------------------------------------------------
(* Report *)

NewReport == [ErrorCount |-> 0, Writer |-> <<>>]

Println_NoCount(r, objects) ==
    [ErrorCount |-> r.ErrorCount, Writer |-> Append(r.Writer, objects)]

Println(r, objects) ==
    [ErrorCount |-> r.ErrorCount + 1, Writer |-> Append(r.Writer, objects)]

---------------------------------------------------------------------------
(* Predicate helpers *)

hasAttribute_KeyOnly(as, key, value) == \E i \in 1..Len(as) : as[i].Key = key

hasAttribute(as, key, value) ==
    LET hits == {i \in 1..Len(as) : as[i].Key = key}
    IN  IF hits = {} THEN FALSE
        ELSE LET a == as[Min(hits)]
             IN  IF value = "*" THEN a.Val # "" ELSE a.Val = value

isElement(node, tag) == tree[node].Type = "ElementNode" /\ tree[node].Data = tag

RECURSIVE hasParentFrom(_, _)
hasParentFrom(p, tag) ==
    IF p = nil THEN FALSE
    ELSE IF tree[p].Type = "ElementNode" /\ tree[p].Data = tag THEN TRUE
    ELSE hasParentFrom(tree[p].Parent, tag)

hasParent(node, tag) == hasParentFrom(tree[node].Parent, tag)

RECURSIVE hasChild(_, _)
RECURSIVE hasChildFrom(_, _)
hasChildFrom(c, tag) ==
    IF c = nil THEN FALSE
    ELSE IF tree[c].Type = "ElementNode" /\ tree[c].Data = tag THEN TRUE
    ELSE IF hasChild(tree[c].FirstChild, tag) THEN TRUE
    ELSE hasChildFrom(tree[c].NextSibling, tag)

hasChild(node, tag) ==
    IF node = nil THEN FALSE ELSE hasChildFrom(tree[node].FirstChild, tag)

---------------------------------------------------------------------------
(* The rules.  Each takes the report and returns the report after the call. *)

LintLazyLoading(r, node, pathname) ==
    IF isElement(node, "img") \/ isElement(node, "iframe")
    THEN IF ~hasAttribute(tree[node].Attr, "loading", "lazy")
         THEN Println(r, <<pathname, "<img>/<iframe> missing loading=lazy">>)
         ELSE r
    ELSE IF isElement(node, "script")
    THEN IF ~hasAttribute(tree[node].Attr, "type", "module")
         THEN Println(r, <<pathname, "<script> missing type=module">>)
         ELSE r
    ELSE r

LintWidthAndHeight_ElseIf(r, node, pathname) ==
    IF isElement(node, "img")
    THEN IF ~hasAttribute(tree[node].Attr, "width", "*")
         THEN Println(r, <<pathname, "<img> missing width">>)
         ELSE IF ~hasAttribute(tree[node].Attr, "height", "*")
         THEN Println(r, <<pathname, "<img> missing height">>)
         ELSE r
    ELSE r

LintWidthAndHeight(r, node, pathname) ==
    IF isElement(node, "img")
    THEN LET r1 == IF ~hasAttribute(tree[node].Attr, "width", "*")
                   THEN Println(r, <<pathname, "<img> missing width">>)
                   ELSE r
         IN  IF ~hasAttribute(tree[node].Attr, "height", "*")
             THEN Println(r1, <<pathname, "<img> missing height">>)
             ELSE r1
    ELSE r

LintAltText(r, node, pathname) ==
    IF isElement(node, "img") /\ ~hasAttribute(tree[node].Attr, "alt", "*")
    THEN Println(r, <<pathname, "<img> missing alt">>)
    ELSE r

LintAName(r, node, pathname) ==
    IF isElement(node, "a") /\ hasAttribute(tree[node].Attr, "name", "*")
    THEN Println(r, <<pathname, "<a> has name; should use id">>)
    ELSE r

LintImgNestedInFigure(r, node, pathname) ==
    IF isElement(node, "img") /\ ~hasParent(node, "figure")
    THEN Println(r, <<pathname, "<img> not inside <figure>">>)
    ELSE r

LintTimeFormatting(r, node, pathname) ==
    IF isElement(node, "time")
    THEN LET c == tree[node].FirstChild
         IN  IF c = nil \/ tree[c].Type # "TextNode"
             THEN Println(r, <<pathname, "<time> needs exactly 1 text child">>)
             ELSE IF ~ParseTimeOK(tree[c].Data)
                  THEN Println(r, <<pathname, "<time> child", tree[c].Data,
                                    "does not have correct format", timeFormat>>)
                  ELSE r
    ELSE r

LintFigureHasFigcaption(r, node, pathname) ==
    IF isElement(node, "figure") /\ ~hasChild(node, "figcaption")
    THEN Println(r, <<pathname, "<figure> missing <figcaption> child">>)
    ELSE r

RECURSIVE CurlyAttrLoop(_, _, _, _)
CurlyAttrLoop(r, as, i, pathname) ==
    IF i > Len(as) THEN r
    ELSE IF (as[i].Key = "alt" \/ as[i].Key = "title") /\ ContainsAnyQuote(as[i].Val)
    THEN CurlyAttrLoop(Println(r, <<pathname, "<img> alt or title contains non-curly quotes">>),
                       as, i + 1, pathname)
    ELSE CurlyAttrLoop(r, as, i + 1, pathname)

LintCurlyQuotes(r, node, pathname) ==
    LET r1 == IF /\ tree[node].Type = "TextNode"
                 /\ ~hasParent(node, "pre") /\ ~hasParent(node, "code")
                 /\ ~hasParent(node, "script") /\ ~hasParent(node, "style")
                 /\ ContainsAnyQuote(tree[node].Data)
              THEN Println(r, <<pathname, "contains non-curly quotes text node",
                                tree[node].Data>>)
              ELSE r
    IN  IF isElement(node, "img")
        THEN CurlyAttrLoop(r1, tree[node].Attr, 1, pathname)
        ELSE r1

---------------------------------------------------------------------------
(* Trees.  A tree is a sequence of nodes in document order (node 1 is the   *)
(* root); each node carries the html.Node fields the linter reads.           *)

El(tag, attrs) == [Type |-> "ElementNode", Data |-> tag, Attr |-> attrs]
Tx(s) == [Type |-> "TextNode", Data |-> s, Attr |-> <<>>]
DocumentNode == [Type |-> "DocumentNode", Data |-> "", Attr |-> <<>>]

(* The parser gives no children to text nodes or to the void element img. *)
CanHaveChildren(l) == l.Type # "TextNode" /\ ~(l.Type = "ElementNode" /\ l.Data = "img")

RECURSIVE AncOrSelf(_, _)
AncOrSelf(parent, n) == IF n = nil THEN {} ELSE {n} \cup AncOrSelf(parent, parent[n])

(* Parent vectors of the ordered trees on 1..N numbered in document order. *)
Parents(N) ==
    {p \in [1..N -> 0..(N - 1)] :
        /\ p[1] = nil
        /\ \A i \in 2..N : p[i] \in AncOrSelf(p, i - 1)}

MkTree(labels, parent) ==
    [n \in 1..Len(labels) |->
        LET kids == {i \in 1..Len(labels) : parent[i] = n}
            sibs == {i \in 1..Len(labels) : i > n /\ parent[i] = parent[n] /\ n # 1}
        IN  [Type        |-> labels[n].Type,
             Data        |-> labels[n].Data,
             Attr        |-> labels[n].Attr,
             Parent      |-> parent[n],
             FirstChild  |-> IF kids = {} THEN nil ELSE Min(kids),
             NextSibling |-> IF sibs = {} THEN nil ELSE Min(sibs)]]

TreesOver(N, rootLabels, labels) ==
    {MkTree(l, p) : <<l, p>> \in
        {lp \in [1..N -> rootLabels \cup labels] \X Parents(N) :
            /\ lp[1][1] \in rootLabels
            /\ \A i \in 2..N : lp[1][i] \in labels /\ CanHaveChildren(lp[1][lp[2][i]])}}

LintLabels ==
    {El("figure", <<>>), El("figcaption", <<>>), El("div", <<>>), El("time", <<>>),
     El("img", <<>>), Tx("2 January 2006"), Tx("Hello, \"World\"")}

LintTrees == UNION {TreesOver(N, {DocumentNode}, LintLabels) : N \in 1..MaxNodes}

(* Attribute lists with unique keys (the document model's invariant). *)
AttrKeys == {"loading", "type", "width", "height", "alt"}
AttrVals == {"", "lazy", "module", "0"}

RECURSIVE AttrLists(_)
AttrLists(k) ==
    IF k = 0 THEN {<<>>}
    ELSE LET shorter == AttrLists(k - 1)
         IN  shorter \cup
             {Append(as, [Key |-> key, Val |-> val]) :
                 <<as, key, val>> \in
                    {t \in shorter \X AttrKeys \X AttrVals :
                        \A i \in 1..Len(t[1]) : t[1][i].Key # t[2]}}

AttrTags == {"img", "iframe", "script", "a", "p"}

TimeTexts ==
    {"2 January 2006", " 2 January 2006", "02 January 2006", "12 January 2006",
     "2  January 2006", "2 January 206", "2 January 2006 ", "0 January 2006",
     "30 February 2006", "29 February 2004", "29 February 2006", "2 Jan 2006",
     "June 99th, 12 BCE", ""}

AttrTrees ==
    {<<[Type |-> "ElementNode", Data |-> tag, Attr |-> as,
        Parent |-> nil, FirstChild |-> nil, NextSibling |-> nil]>> :
        <<tag, as>> \in AttrTags \X AttrLists(MaxAttrs)}
    \cup {<<[Type |-> "TextNode", Data |-> "x", Attr |-> <<>>,
             Parent |-> nil, FirstChild |-> nil, NextSibling |-> nil]>>}
    \cup {MkTree(<<El("time", <<>>), Tx(s)>>, <<nil, 1>>) : s \in TimeTexts}

---------------------------------------------------------------------------
(* main's inputs: sample documents, each the tree html.Parse builds and the *)
(* tokens html.Tokenizer returns for the same source text.                  *)

Tok(type, data) == [Type |-> type, Data |-> data]

SampleDocs ==
    <<  \* <a name="x"></a>
        [name   |-> "a.html",
         tree   |-> MkTree(<<DocumentNode, El("html", <<>>), El("head", <<>>),
                             El("body", <<>>),
                             El("a", <<[Key |-> "name", Val |-> "x"]>>)>>,
                           <<nil, 1, 2, 2, 4>>),
         tokens |-> <<Tok("StartTagToken", "a"), Tok("EndTagToken", "a")>>],
        \* </p>
        [name   |-> "endp.html",
         tree   |-> MkTree(<<DocumentNode, El("html", <<>>), El("head", <<>>),
                             El("body", <<>>), El("p", <<>>)>>,
                           <<nil, 1, 2, 2, 4>>),
         tokens |-> <<Tok("EndTagToken", "p")>>],
        \* <p>Hello, "World"
        [name   |-> "openp.html",
         tree   |-> MkTree(<<DocumentNode, El("html", <<>>), El("head", <<>>),
                             El("body", <<>>), El("p", <<>>),
                             Tx("Hello, \"World\"")>>,
                           <<nil, 1, 2, 2, 4, 5>>),
         tokens |-> <<Tok("StartTagToken", "p"), Tok("TextToken", "")>> ] >>

Files == [doc : DOMAIN SampleDocs, err : {"none", "open", "parse", "seek"}]

RECURSIVE SeqsUpTo(_, _)
SeqsUpTo(S, k) ==
    IF k = 0 THEN {<<>>}
    ELSE LET shorter == SeqsUpTo(S, k - 1)
         IN  shorter \cup {Append(q, x) : <<q, x>> \in shorter \X S}

Tokens ==
    {Tok("StartTagToken", "a"), Tok("StartTagToken", "p"),
     Tok("EndTagToken", "a"), Tok("EndTagToken", "p"),
     Tok("SelfClosingTagToken", "br"), Tok("TextToken", "")}

(* The pathname argument of the running Lint or LintNesting call. *)
Pathname ==
    IF mainpc = "api" THEN ""
    ELSE IF mainpc = "stdinlint" THEN "<stdin>"
    ELSE SampleDocs[args[argi].doc].name

Front(q) == SubSeq(q, 1, Len(q) - 1)
Last(q) == q[Len(q)]

---------------------------------------------------------------------------
(* Lint: the rules on the node, then Lint on each child in sibling order.   *)

RuleNames ==
    <<"LintLazyLoading", "LintWidthAndHeight", "LintAltText", "LintAName",
      "LintImgNestedInFigure", "LintTimeFormatting", "LintFigureHasFigcaption",
      "LintCurlyQuotes">>

RuleCall(k, r, node, pathname) ==
    CASE k = 1 -> LintLazyLoading(r, node, pathname)
      [] k = 2 -> LintWidthAndHeight(r, node, pathname)
      [] k = 3 -> LintAltText(r, node, pathname)
      [] k = 4 -> LintAName(r, node, pathname)
      [] k = 5 -> LintImgNestedInFigure(r, node, pathname)
      [] k = 6 -> LintTimeFormatting(r, node, pathname)
      [] k = 7 -> LintFigureHasFigcaption(r, node, pathname)
      [] k = 8 -> LintCurlyQuotes(r, node, pathname)

(* The report after the first k rule calls of Lint on node. *)
RECURSIVE AfterRules(_, _, _, _)
AfterRules(k, r, node, pathname) ==
    IF k = 0 THEN r
    ELSE RuleCall(k, AfterRules(k - 1, r, node, pathname), node, pathname)

RuleLog(r, node, pathname) ==
    [k \in 1..Len(RuleNames) |->
        [rule  |-> RuleNames[k],
         node  |-> node,
         lines |-> Drop(AfterRules(k, r, node, pathname).Writer,
                        Len(AfterRules(k - 1, r, node, pathname).Writer))]]

(* Lint is entered on cur: lines 163-170, then the loop's first iteration. *)
LintEnter ==
    /\ lintpc = "call"
    /\ report' = AfterRules(Len(RuleNames), report, cur, Pathname)
    /\ log' = log \o RuleLog(report, cur, Pathname)
    /\ IF tree[cur].FirstChild # nil
       THEN /\ frames' = Append(frames, cur)
            /\ cur' = tree[cur].FirstChild
            /\ lintpc' = "call"
       ELSE /\ lintpc' = "return"
            /\ UNCHANGED <<cur, frames>>
    /\ UNCHANGED <<tree, passes>>
    /\ UNCHANGED nestVars
    /\ UNCHANGED mainVars

LintReturn_SkipSiblings ==
    /\ lintpc = "return"
    /\ IF frames = <<>>
       THEN /\ lintpc' = "done"
            /\ UNCHANGED <<cur, frames>>
       ELSE /\ cur' = Last(frames)
            /\ frames' = Front(frames)
            /\ lintpc' = "return"
    /\ UNCHANGED <<report, tree, log, passes>>
    /\ UNCHANGED nestVars
    /\ UNCHANGED mainVars

(* Lint(cur) returns: to its caller's loop (c = c.NextSibling), or, for the *)
(* outermost call, to whoever called Lint.                                  *)
LintReturn ==
    /\ lintpc = "return"
    /\ IF frames = <<>>
       THEN /\ lintpc' = "done"
            /\ UNCHANGED <<cur, frames>>
       ELSE IF tree[cur].NextSibling # nil
       THEN /\ cur' = tree[cur].NextSibling
            /\ lintpc' = "call"
            /\ UNCHANGED frames
       ELSE /\ cur' = Last(frames)
            /\ frames' = Front(frames)
            /\ lintpc' = "return"
    /\ UNCHANGED <<report, tree, log, passes>>
    /\ UNCHANGED nestVars
    /\ UNCHANGED mainVars

StartPass(pass) == [src |-> argi, pass |-> pass, from |-> Len(report.Writer),
                    done |-> FALSE, lines |-> <<>>]

EndPass(ps) ==
    [ps EXCEPT ![Len(ps)].done = TRUE,
               ![Len(ps)].lines = Drop(report.Writer, ps[Len(ps)].from)]

(* runTest once more on the same document: a fresh Report, Lint from the root. *)
RunTestAgain ==
    /\ mainpc = "api"
    /\ lintpc = "done"
    /\ Len(passes) = 1
    /\ passes' = Append(EndPass(passes), [StartPass("Lint") EXCEPT !.from = 0])
    /\ report' = NewReport
    /\ lintpc' = "call"
    /\ cur' = 1
    /\ frames' = <<>>
    /\ log' = <<>>
    /\ UNCHANGED tree
    /\ UNCHANGED nestVars
    /\ UNCHANGED mainVars

---------------------------------------------------------------------------
(* LintNesting: one action per token z.Next() returns.                      *)

UnclosedCheck_MoreThanOne(r, stk, pathname) ==
    IF Len(stk) > 1 THEN Println(r, <<pathname, "Unclosed tags", stk>>) ELSE r

(* Lines 204-206, after the loop. *)
UnclosedCheck(r, stk, pathname) ==
    IF Len(stk) # 0 THEN Println(r, <<pathname, "Unclosed tags", stk>>) ELSE r

MatchCheck_Bottom(r, stk, tag, pathname) ==
    IF tag # stk[1]
    THEN Println(r, <<pathname, "Unmatched pair", tag, stk[1]>>)
    ELSE r

(* Lines 195-199, with a non-empty stack. *)
MatchCheck(r, stk, tag, pathname) ==
    LET previous == Last(stk)
    IN  IF tag # previous
        THEN Println(r, <<pathname, "Unmatched pair", tag, previous>>)
        ELSE r

NextToken ==
    /\ read' = Append(read, Head(reader))
    /\ reader' = Tail(reader)

NestStartTag ==
    /\ nestpc = "scan"
    /\ reader # <<>>
    /\ Head(reader).Type = "StartTagToken"
    /\ NextToken
    /\ stack' = Append(stack, Head(reader).Data)
    /\ UNCHANGED <<report, nestpc, passes>>
    /\ UNCHANGED lintVars
    /\ UNCHANGED mainVars

(* With an empty stack the underflow line is written and control falls      *)
(* through to stack[len(stack)-1], an index of -1: a run-time panic.        *)
NestEndTag ==
    /\ nestpc = "scan"
    /\ reader # <<>>
    /\ Head(reader).Type = "EndTagToken"
    /\ NextToken
    /\ IF Len(stack) = 0
       THEN /\ report' = Println(report, <<Pathname, "tag stack underflow">>)
            /\ nestpc' = "panic"
            /\ UNCHANGED stack
       ELSE /\ report' = MatchCheck(report, stack, Head(reader).Data, Pathname)
            /\ stack' = Front(stack)
            /\ UNCHANGED nestpc
    /\ UNCHANGED passes
    /\ UNCHANGED lintVars
    /\ UNCHANGED mainVars

NestOtherToken ==
    /\ nestpc = "scan"
    /\ reader # <<>>
    /\ Head(reader).Type \notin {"StartTagToken", "EndTagToken"}
    /\ NextToken
    /\ UNCHANGED <<report, stack, nestpc, passes>>
    /\ UNCHANGED lintVars
    /\ UNCHANGED mainVars

(* z.Next() returns ErrorToken (the input is exhausted): the loop breaks. *)
NestErrorToken ==
    /\ nestpc = "scan"
    /\ reader = <<>>
    /\ report' = UnclosedCheck(report, stack, Pathname)
    /\ nestpc' = "done"
    /\ UNCHANGED <<reader, read, stack, passes>>
    /\ UNCHANGED lintVars
    /\ UNCHANGED mainVars

---------------------------------------------------------------------------
(* main *)

File == args[argi]

NextFile ==
    /\ argi' = argi + 1
    /\ mainpc' = "loop"

MainOpenFails ==
    /\ mainpc = "loop"
    /\ argi <= Len(args)
    /\ File.err = "open"
    /\ report' = Println(report, <<"open error">>)
    /\ NextFile
    /\ UNCHANGED <<args, stdin, exitCode, passes>>
    /\ UNCHANGED lintVars
    /\ UNCHANGED nestVars

MainParseFails ==
    /\ mainpc = "loop"
    /\ argi <= Len(args)
    /\ File.err = "parse"
    /\ report' = Println(report, <<"parse error">>)
    /\ NextFile
    /\ UNCHANGED <<args, stdin, exitCode, passes>>
    /\ UNCHANGED lintVars
    /\ UNCHANGED nestVars

CallLint(document) ==
    /\ tree' = document
    /\ lintpc' = "call"
    /\ cur' = 1
    /\ frames' = <<>>
    /\ log' = <<>>
    /\ passes' = Append(passes, StartPass("Lint"))

(* Lines 34-46: the file opens and parses; Lint is called on the document. *)
MainLint ==
    /\ mainpc = "loop"
    /\ argi <= Len(args)
    /\ File.err \notin {"open", "parse"}
    /\ CallLint(SampleDocs[File.doc].tree)
    /\ mainpc' = "lint"
    /\ UNCHANGED <<report, args, stdin, argi, exitCode>>
    /\ UNCHANGED nestVars

(* Lines 47-51: Lint has returned; Seek, then LintNesting is called. *)
MainSeek ==
    /\ mainpc = "lint"
    /\ lintpc = "done"
    /\ lintpc' = "idle"
    /\ IF File.err = "seek"
       THEN /\ report' = Println(report, <<"seek error">>)
            /\ NextFile
            /\ passes' = EndPass(passes)
            /\ UNCHANGED nestVars
       ELSE /\ reader' = SampleDocs[File.doc].tokens
            /\ read' = <<>>
            /\ stack' = <<>>
            /\ nestpc' = "scan"
            /\ mainpc' = "nesting"
            /\ passes' = Append(EndPass(passes), StartPass("LintNesting"))
            /\ UNCHANGED <<report, argi>>
    /\ UNCHANGED <<tree, cur, frames, log, args, stdin, exitCode>>

(* LintNesting has returned: the loop goes on to the next file. *)
MainNestingDone ==
    /\ mainpc = "nesting"
    /\ nestpc = "done"
    /\ nestpc' = "idle"
    /\ passes' = EndPass(passes)
    /\ NextFile
    /\ UNCHANGED <<report, reader, read, stack, args, stdin, exitCode>>
    /\ UNCHANGED lintVars

(* Lines 53-60: no file arguments, standard input is parsed. *)
MainStdin ==
    /\ mainpc = "loop"
    /\ argi > Len(args)
    /\ Len(args) = 0
    /\ IF stdin.err = "parse"
       THEN /\ report' = Println(report, <<"parse error">>)
            /\ exitCode' = report'.ErrorCount
            /\ mainpc' = "exited"
            /\ UNCHANGED <<passes, argi>>
            /\ UNCHANGED lintVars
       ELSE /\ argi' = 0
            /\ mainpc' = "stdinlint"
            /\ CallLint(SampleDocs[stdin.doc].tree)
            /\ UNCHANGED <<report, exitCode>>
    /\ UNCHANGED <<args, stdin>>
    /\ UNCHANGED nestVars

(* Line 61, reached after the file loop or after Lint on standard input. *)
MainExit ==
    /\ \/ mainpc = "loop" /\ argi > Len(args) /\ Len(args) # 0 /\ UNCHANGED passes
       \/ mainpc = "stdinlint" /\ lintpc = "done" /\ passes' = EndPass(passes)
    /\ exitCode' = report.ErrorCount
    /\ mainpc' = "exited"
    /\ UNCHANGED <<report, args, stdin, argi>>
    /\ UNCHANGED lintVars
    /\ UNCHANGED nestVars

---------------------------------------------------------------------------
(* Specifications *)

NoLint == tree = <<>> /\ lintpc = "idle" /\ cur = nil /\ frames = <<>> /\ log = <<>>
NoNesting == reader = <<>> /\ read = <<>> /\ stack = <<>> /\ nestpc = "idle"
NoMain == args = <<>> /\ stdin = [doc |-> 1, err |-> "none"] /\ argi = 0
          /\ mainpc = "api" /\ exitCode = -1

InitNesting ==
    /\ report = NewReport
    /\ reader \in SeqsUpTo(Tokens, MaxTokens)
    /\ read = <<>>
    /\ stack = <<>>
    /\ nestpc = "scan"
    /\ passes = <<>>
    /\ NoLint
    /\ NoMain

NextNesting == NestStartTag \/ NestEndTag \/ NestOtherToken \/ NestErrorToken

SpecNesting == InitNesting /\ [][NextNesting]_vars

InitWalk(trees) ==
    /\ report = NewReport
    /\ tree \in trees
    /\ lintpc = "call"
    /\ cur = 1
    /\ frames = <<>>
    /\ log = <<>>
    /\ passes = <<[src |-> 0, pass |-> "Lint", from |-> 0, done |-> FALSE,
                   lines |-> <<>>]>>
    /\ NoNesting
    /\ NoMain

NextLint == LintEnter \/ LintReturn \/ RunTestAgain

InitLint == InitWalk(LintTrees)

SpecLint == InitLint /\ [][NextLint]_vars

InitAttrs == InitWalk(AttrTrees)

SpecAttrs == InitAttrs /\ [][NextLint]_vars

InitMain ==
    /\ report = NewReport
    /\ args \in SeqsUpTo(Files, MaxFiles)
    /\ stdin \in IF args = <<>>
                 THEN [doc : DOMAIN SampleDocs, err : {"none", "parse"}]
                 ELSE {[doc |-> 1, err |-> "none"]}
    /\ argi = 1
    /\ mainpc = "loop"
    /\ exitCode = -1
    /\ passes = <<>>
    /\ NoLint
    /\ NoNesting

NextMain ==
    \/ MainOpenFails \/ MainParseFails \/ MainLint \/ MainSeek
    \/ MainNestingDone \/ MainStdin \/ MainExit
    \/ LintEnter \/ LintReturn
    \/ NestStartTag \/ NestEndTag \/ NestOtherToken \/ NestErrorToken

SpecMain == InitMain /\ [][NextMain]_vars

Spec == SpecMain

---------------------------------------------------------------------------
(* Reference notions the claims are stated with.  None is used by an action. *)

LineIs(line, msg) == Len(line) >= 2 /\ line[2] = msg

LinesWith(lines, msg) == {i \in 1..Len(lines) : LineIs(lines[i], msg)}

IsTag(tok) == tok.Type \in {"StartTagToken", "EndTagToken"}

CountType(toks, from, to, type) ==
    Cardinality({j \in from..to : toks[j].Type = type})

(* The start tags of toks that no later end tag closes, in stream order. *)
StillOpenIdx(toks) ==
    {i \in 1..Len(toks) :
        /\ toks[i].Type = "StartTagToken"
        /\ \A j \in (i + 1)..Len(toks) :
              CountType(toks, i + 1, j, "EndTagToken")
                 <= CountType(toks, i + 1, j, "StartTagToken")}

RECURSIVE TagsAt(_, _)
TagsAt(toks, idx) ==
    IF idx = {} THEN <<>>
    ELSE <<toks[Min(idx)].Data>> \o TagsAt(toks, idx \ {Min(idx)})

StillOpen(toks) == TagsAt(toks, StillOpenIdx(toks))

(* Balanced and properly nested: cancelling adjacent <t></t> pairs of the   *)
(* tag tokens leaves nothing.                                               *)
RECURSIVE Cancel(_)
Cancel(q) ==
    LET pairs == {i \in 1..(Len(q) - 1) :
                    /\ q[i].Type = "StartTagToken"
                    /\ q[i + 1].Type = "EndTagToken"
                    /\ q[i].Data = q[i + 1].Data}
    IN  IF pairs = {} THEN q
        ELSE Cancel(SubSeq(q, 1, Min(pairs) - 1) \o Drop(q, Min(pairs) + 1))

WellNested(toks) == Cancel(SelectSeq(toks, IsTag)) = <<>>

RECURSIVE Ancestors(_)
Ancestors(n) ==
    IF tree[n].Parent = nil THEN {}
    ELSE {tree[n].Parent} \cup Ancestors(tree[n].Parent)

Descendants(n) == {m \in DOMAIN tree : n \in Ancestors(m)}

Children(n) == {m \in DOMAIN tree : tree[m].Parent = n}

HasExactly(as, key, val) == \E j \in 1..Len(as) : as[j].Key = key /\ as[j].Val = val

HasNonEmpty(as, key) == \E j \in 1..Len(as) : as[j].Key = key /\ as[j].Val # ""

RECURSIVE PreOrder(_)
RECURSIVE PreOrderFrom(_)
PreOrderFrom(c) ==
    IF c = nil THEN <<>> ELSE PreOrder(c) \o PreOrderFrom(tree[c].NextSibling)

PreOrder(n) == <<n>> \o PreOrderFrom(tree[n].FirstChild)

RECURSIVE Concat(_, _)
Concat(entries, k) ==
    IF k = 0 THEN <<>> ELSE Concat(entries, k - 1) \o entries[k].lines

LogOf(rule) == {i \in DOMAIN log : log[i].rule = rule}

---------------------------------------------------------------------------
(* Claims about LintNesting, under SpecNesting *)

(* C1: an end tag read with an empty stack records exactly one diagnostic,  *)
(* leaves the stack as it is and the scan goes on; the scan never aborts.   *)
C1_UnderflowContinues ==
    [][(nestpc = "scan" /\ stack = <<>> /\ reader # <<>>
          /\ Head(reader).Type = "EndTagToken" /\ read' # read)
       => (/\ nestpc' = "scan"
           /\ stack' = stack
           /\ report'.ErrorCount = report.ErrorCount + 1)]_vars

(* C2: at the end of the stream exactly one "Unclosed tags" line is written *)
(* if and only if the stack is not empty, it lists the still-open tags in   *)
(* push order, and a well-nested stream leaves the report empty.            *)
C2_UnclosedAtEnd ==
    nestpc = "done" =>
        LET U == LinesWith(report.Writer, "Unclosed tags")
        IN  /\ stack = StillOpen(read)
            /\ Cardinality(U) = (IF StillOpen(read) # <<>> THEN 1 ELSE 0)
            /\ StillOpen(read) # <<>> =>
                  Last(report.Writer) = <<Pathname, "Unclosed tags", StillOpen(read)>>
            /\ WellNested(read) => report = NewReport

C2_Witness ==
    /\ nestpc = "done"
    /\ Len(stack) = 2
    /\ Len(read) = 4
    /\ Cardinality(LinesWith(report.Writer, "Unclosed tags")) = 1

(* C3: a start tag is pushed; an end tag read with a non-empty stack pops   *)
(* the top P and writes "Unmatched pair" T P exactly when T # P; any other  *)
(* token changes neither the stack nor the report; the scan goes on.        *)
C3_TokenStep ==
    [][(nestpc = "scan" /\ read' # read) =>
        LET tok == Last(read')
        IN  /\ tok.Type = "StartTagToken" =>
                 /\ stack' = Append(stack, tok.Data)
                 /\ report' = report
                 /\ nestpc' = "scan"
            /\ (tok.Type = "EndTagToken" /\ stack # <<>>) =>
                 /\ stack' = SubSeq(stack, 1, Len(stack) - 1)
                 /\ nestpc' = "scan"
                 /\ IF tok.Data # stack[Len(stack)]
                    THEN /\ report'.ErrorCount = report.ErrorCount + 1
                         /\ report'.Writer =
                              Append(report.Writer,
                                     <<Pathname, "Unmatched pair", tok.Data,
                                       stack[Len(stack)]>>)
                    ELSE report' = report
            /\ ~IsTag(tok) =>
                 /\ stack' = stack
                 /\ report' = report
                 /\ nestpc' = "scan"]_vars

C3_Witness ==
    /\ nestpc = "scan"
    /\ Len(read) = 4
    /\ read[1].Type = "StartTagToken" /\ read[2].Type = "StartTagToken"
    /\ read[3].Type = "TextToken"
    /\ read[4].Type = "EndTagToken" /\ read[4].Data = read[1].Data
    /\ stack = <<read[1].Data>>
    /\ report.Writer = <<<<"", "Unmatched pair", read[4].Data, read[2].Data>>>>

---------------------------------------------------------------------------
(* Claims about the Report and main, under SpecMain *)

IsPrefix(p, q) == Len(p) <= Len(q) /\ SubSeq(q, 1, Len(p)) = p

(* C4: ErrorCount is the number of lines written so far; a step adds to    *)
(* both alike and takes nothing back, the lines of every finished pass stay *)
(* where they were written, and os.Exit is handed the total.                *)
C4_CountIsCumulative ==
    /\ [](/\ report.ErrorCount = Len(report.Writer)
          /\ \A k \in DOMAIN passes :
                passes[k].done =>
                   SubSeq(report.Writer, passes[k].from + 1,
                          passes[k].from + Len(passes[k].lines)) = passes[k].lines
          /\ mainpc = "exited" => exitCode = Len(report.Writer))
    /\ [][/\ IsPrefix(report.Writer, report'.Writer)
          /\ report'.ErrorCount - report.ErrorCount
                = Len(report'.Writer) - Len(report.Writer)]_vars

C4_Witness ==
    /\ mainpc = "exited"
    /\ Len(args) = 2
    /\ exitCode = 4
    /\ \E k \in DOMAIN passes : passes[k].src = 1 /\ passes[k].lines # <<>>
    /\ \E k \in DOMAIN passes : passes[k].src = 2 /\ passes[k].lines # <<>>

BothPasses(src) ==
    \E k \in 1..(Len(passes) - 1) :
        /\ passes[k].src = src /\ passes[k].pass = "Lint" /\ passes[k].done
        /\ passes[k + 1].src = src /\ passes[k + 1].pass = "LintNesting"
        /\ passes[k + 1].done

(* C10: when the process exits, every document that parsed, a file or      *)
(* standard input, has had its tree walk and then its nesting scan, and a   *)
(* document that did not open or parse has had neither.                     *)
C10_WalkThenScan ==
    mainpc = "exited" =>
        /\ \A i \in 1..Len(args) :
              IF args[i].err \in {"open", "parse"}
              THEN \A k \in DOMAIN passes : passes[k].src # i
              ELSE BothPasses(i)
        /\ Len(args) = 0 =>
              IF stdin.err = "parse" THEN passes = <<>> ELSE BothPasses(0)

---------------------------------------------------------------------------
(* Claims about the rules and the walk, under SpecLint and SpecAttrs *)

(* C5: LintFigureHasFigcaption writes its line for a figure exactly when no *)
(* node below the figure, at any depth, is a figcaption element, and        *)
(* hasChild(node, tag) is true exactly when such a node exists.             *)
C5_FigcaptionAtAnyDepth ==
    \A i \in LogOf("LintFigureHasFigcaption") :
        LET below == \E m \in Descendants(log[i].node) : isElement(m, "figcaption")
        IN  isElement(log[i].node, "figure") =>
                /\ hasChild(log[i].node, "figcaption") <=> below
                /\ Len(log[i].lines) = 1 <=> ~below

TimeIsWellFormed(n) ==
    /\ Cardinality(Children(n)) = 1
    /\ \A c \in Children(n) : tree[c].Type = "TextNode" /\ ParseTimeOK(tree[c].Data)

(* C6: LintTimeFormatting writes nothing for a time element whose only      *)
(* child is a text node that parses, and exactly one line otherwise.        *)
C6_TimeNeedsOneTextChild ==
    \A i \in LogOf("LintTimeFormatting") :
        isElement(log[i].node, "time") =>
            Len(log[i].lines) = (IF TimeIsWellFormed(log[i].node) THEN 0 ELSE 1)

(* C7: LintLazyLoading writes exactly one line for an img or iframe with no *)
(* loading attribute equal to "lazy" and for a script with no type equal to *)
(* "module", and nothing in every other case.                               *)
C7_LazyLoading ==
    \A i \in LogOf("LintLazyLoading") :
        LET n  == log[i].node
            as == tree[n].Attr
        IN  log[i].lines =
              IF isElement(n, "img") \/ isElement(n, "iframe")
              THEN (IF HasExactly(as, "loading", "lazy") THEN <<>>
                    ELSE <<<<"", "<img>/<iframe> missing loading=lazy">>>>)
              ELSE IF isElement(n, "script")
              THEN (IF HasExactly(as, "type", "module") THEN <<>>
                    ELSE <<<<"", "<script> missing type=module">>>>)
              ELSE <<>>

C7_Witness ==
    \E i \in LogOf("LintLazyLoading") :
        /\ isElement(log[i].node, "iframe")
        /\ \E j \in 1..Len(tree[log[i].node].Attr) :
              /\ tree[log[i].node].Attr[j].Key = "loading"
              /\ tree[log[i].node].Attr[j].Val = "module"
        /\ Len(log[i].lines) = 1
        /\ lintpc = "done"

(* C8: LintWidthAndHeight writes, for an img, one line if width is absent   *)
(* or empty and another if height is absent or empty, and nothing else.     *)
C8_WidthAndHeight ==
    \A i \in LogOf("LintWidthAndHeight") :
        LET n  == log[i].node
            as == tree[n].Attr
        IN  log[i].lines =
              IF isElement(n, "img")
              THEN (IF HasNonEmpty(as, "width") THEN <<>>
                    ELSE <<<<"", "<img> missing width">>>>)
                   \o (IF HasNonEmpty(as, "height") THEN <<>>
                       ELSE <<<<"", "<img> missing height">>>>)
              ELSE <<>>

C8_Witness ==
    \E i \in LogOf("LintWidthAndHeight") :
        /\ isElement(log[i].node, "img")
        /\ tree[log[i].node].Attr = <<[Key |-> "width", Val |-> ""]>>
        /\ Len(log[i].lines) = 2
        /\ lintpc = "done"

NRules == Len(RuleNames)

(* C9: the walk visits the nodes in depth-first pre-order, each once,       *)
(* applies the eight rules to each in their fixed order, each rule writing  *)
(* what it writes on that node alone, and a second walk of the same tree    *)
(* writes the same lines.                                                   *)
C9_PreOrderWalk ==
    LET order == PreOrder(1)
    IN  /\ Len(log) % NRules = 0
        /\ Len(log) <= NRules * Len(order)
        /\ \A i \in DOMAIN log :
              /\ log[i].node = order[((i - 1) \div NRules) + 1]
              /\ log[i].rule = RuleNames[((i - 1) % NRules) + 1]
              /\ log[i].lines
                    = RuleCall(((i - 1) % NRules) + 1, NewReport, log[i].node, "").Writer
        /\ report.Writer = Concat(log, Len(log))
        /\ lintpc = "done" =>
              /\ Len(log) = NRules * Len(order)
              /\ {order[k] : k \in DOMAIN order} = DOMAIN tree
              /\ Len(order) = Len(tree)
              /\ Len(passes) = 2 => passes[1].lines = report.Writer

C9_Witness ==
    /\ lintpc = "done"
    /\ Len(passes) = 2
    /\ Len(tree) = 4
    /\ tree[2].FirstChild = 3 /\ tree[2].NextSibling = 4
    /\ isElement(2, "figure") /\ isElement(3, "img") /\ isElement(4, "img")
    /\ report.ErrorCount = 10

=============================================================================
